---- MODULE Spec2Model ----
(***************************************************************************)
(* Cijitter monitor (gvisor/runsc/main.go): the control loop `monitor`,    *)
(* its sampler `get_target_addr`, the decoder `read_sample_logs`, the      *)
(* selector `get_pid`, the decision functions `delayStates` and            *)
(* `judge_delay`, the writer goroutine `notifier` behind the one-slot      *)
(* channel addrChan, and the reader goroutine `listener` of the inbound    *)
(* role.                                                                   *)
(*                                                                         *)
(* Go strings are sequences of one-character strings, so that formatting   *)
(* (strconv.Itoa, Sprintf("0x%x")) and strings.Contains are computed.      *)
(* Go arrays [3]T are functions on 0..2.                                   *)
(***************************************************************************)
EXTENDS Integers, Sequences, FiniteSets, TLC

\* ------------------------------------------------------------------ bounds
\* Successful cycles the loop may run (guard on the cycle index).
MaxCycles == 6
\* Successful cycles since start-up whose inputs and directives are recorded.
HistLen == 3
\* Successful cycles the loop may run under the fair specification.
FairCycles == 2
\* judge_delay is explored on windows over {0, 50, .., 50 * JudgeMax, 99, 101}.
JudgeMax == 6
\* read_sample_logs is explored on logs of up to MaxRecords complete records.
MaxRecords == 2
\* get_pid is explored on listings of up to MaxRows rows.
MaxRows == 2
\* delayStates is explored on cycle indices up to MaxIndex.
MaxIndex == 6
\* Successful cycles the loop may run while the outbound stream is followed.
StreamCycles == 3
\* listener is explored on inbound streams of up to MaxValues values.
MaxValues == 3

\* --------------------------------------------------------- program constants
\* var duration int = 8050
duration == 8050
\* var interval int = 500
interval == 500
\* if delay_interval > time.Duration(30000)
Ceiling == 30000
\* if acc_num > 3000
Outlier == 3000
\* acc_cmp <= 80
NoiseFloor == 80
\* A channel made with room for two directives.
ChanCapTwo == 1 + 1

\* make(chan string, 1)
ChanCap == 1

\* ------------------------------------------------------------------ strings
HexDigits == <<"0","1","2","3","4","5","6","7","8","9","a","b","c","d","e","f">>

RECURSIVE FormatUint(_, _)
\* The digits of n >= 0 in the given base, most significant first.
FormatUint(n, base) ==
  IF n < base THEN <<HexDigits[n + 1]>>
  ELSE FormatUint(n \div base, base) \o <<HexDigits[(n % base) + 1]>>

\* strconv.Itoa
Itoa(n) == IF n < 0 THEN <<"-">> \o FormatUint(-n, 10) ELSE FormatUint(n, 10)

\* fmt.Sprintf("0x%x", k) for an int64 k: a negative k prints a sign.
SprintfHex(k) ==
  <<"0","x">> \o (IF k < 0 THEN <<"-">> \o FormatUint(-k, 16) ELSE FormatUint(k, 16))

\* strings.Contains
Contains(s, sub) ==
  \E i \in 0..(Len(s) - Len(sub)) : SubSeq(s, i + 1, i + Len(sub)) = sub

\* What json.NewEncoder(writer).Encode(msg) writes for a string of hex
\* digits, "x" and a blank (nothing to escape): the quoted string and a
\* newline.
JsonEncode(m) == <<"\"">> \o m \o <<"\"", "\n">>

\* The values of the inbound stream: a JSON string, a JSON number (a small
\* natural), null, or text that is not JSON.
JString(chars) == [kind |-> "string", str |-> chars, num |-> 0]
JNumber(n) == [kind |-> "number", str |-> <<>>, num |-> n]
JNull == [kind |-> "null", str |-> <<>>, num |-> 0]
Malformed == [kind |-> "malformed", str |-> <<>>, num |-> 0]

\* fmt.Sprintf("%v", data) of a value decoded into interface{}: a string
\* prints as it is, a float64 holding a small natural prints its digits, nil
\* prints <nil>.
SprintfV(v) ==
  CASE v.kind = "string" -> v.str
    [] v.kind = "number" -> FormatUint(v.num, 10)
    [] v.kind = "null" -> <<"<","n","i","l",">">>

\* stopSig := "0x00000 0"
stopSig == <<"0","x","0","0","0","0","0"," ","0">>

\* addr_acc without the separator between address and count.
AddrAccNoSpace(addr, acc_num) == addr \o Itoa(acc_num)

\* addr_acc := addr + " " + strconv.Itoa(acc_num)
AddrAcc(addr, acc_num) == addr \o <<" ">> \o Itoa(acc_num)

\* ----------------------------------------------------------- interval policy
\* delayStates deciding on the flag of the previous slot instead of the
\* current one.
delayStates_prevSlot(last_delay, index, delay_interval) ==
  IF index = 0 THEN <<interval, TRUE>>
  ELSE LET status == last_delay[(index - 1) % 3] IN
       IF status THEN <<interval, status>>
       ELSE <<IF delay_interval * 10 > Ceiling THEN Ceiling ELSE delay_interval * 10,
              status>>

\* delayStates returning the flag of the current slot as the status.
delayStates_ownStatus(last_delay, index, delay_interval) ==
  IF index = 0 THEN <<interval, TRUE>>
  ELSE LET status == last_delay[index % 3] IN
       IF last_delay[index % 3] THEN <<interval, status>>
       ELSE <<IF delay_interval * 10 > Ceiling THEN Ceiling ELSE delay_interval * 10,
              status>>

\* delayStates without the clamp to the ceiling.
delayStates_noCeiling(last_delay, index, delay_interval) ==
  IF index = 0 THEN <<interval, TRUE>>
  ELSE LET status == last_delay[(index - 1) % 3] IN
       IF last_delay[index % 3] THEN <<interval, status>>
       ELSE <<delay_interval * 10, status>>

\* delayStates(last_delay, index, delay_interval): <<interval, status>>.
\* The three-fold loop of the source tests one and the same condition.
delayStates(last_delay, index, delay_interval) ==
  IF index = 0 THEN <<interval, TRUE>>
  ELSE LET status == last_delay[(index - 1) % 3] IN
       IF last_delay[index % 3] THEN <<interval, status>>
       ELSE <<IF delay_interval * 10 > Ceiling THEN Ceiling ELSE delay_interval * 10,
              status>>

\* --------------------------------------------------------------- classifier
\* judge_delay works in float64; the comparisons are decided here exactly, in
\* integers.  With sum = a0+a1+a2 and
\*   P = (a0-a1)^2 + (a1-a2)^2 + (a0-a2)^2,
\* std = sum_i (a_i - mean)^2 = P/3 (the source does not divide by n), so
\* ratio^2 = (stddev/mean)^2 = 3*P/sum^2; count = diff/access[(index+2)%3].
\* A zero divisor gives +Inf or NaN, for which every `<=` is false; a
\* negative divisor gives a value <= 0.  No integer window has ratio equal to
\* 0.2 or 0.35, so rounding cannot change a verdict.
Sum3(access) == access[0] + access[1] + access[2]

SqDiff(access) ==
  (access[0] - access[1]) * (access[0] - access[1])
  + (access[1] - access[2]) * (access[1] - access[2])
  + (access[0] - access[2]) * (access[0] - access[2])

\* floor(n*y/d) for y >= 0, without leaving 32 bits.
ScaledFloor(y, n, d) == n * (y \div d) + (n * (y % d)) \div d

\* ratio <= sqrt(n2/d2)
RatioLe(access, n2, d2) ==
  LET s == Sum3(access) IN
  IF s > 0 THEN 3 * SqDiff(access) <= ScaledFloor(s * s, n2, d2)
  ELSE s < 0

\* count <= n/d
CountLe(access, index, n, d) ==
  LET prev == access[(index + 2) % 3]
      diff == IF access[index] > prev THEN access[index] - prev
              ELSE prev - access[index]
  IN IF prev > 0 THEN d * diff <= n * prev ELSE prev < 0

\* mean < 100.0
MeanBelow100(access) == Sum3(access) < 300

judge_delay_meanLe(access, index) ==
  IF CountLe(access, index, 1, 10) \/ RatioLe(access, 1, 25)
     \/ (RatioLe(access, 49, 400) /\ CountLe(access, index, 7, 20))
  THEN Sum3(access) > 300
  ELSE FALSE

\* judge_delay with the first threshold on count at 1.0 instead of 0.1.
judge_delay_count1(access, index) ==
  IF CountLe(access, index, 1, 1) \/ RatioLe(access, 1, 25)
     \/ (RatioLe(access, 49, 400) /\ CountLe(access, index, 7, 20))
  THEN ~MeanBelow100(access)
  ELSE FALSE

judge_delay(access, index) ==
  IF CountLe(access, index, 1, 10) \/ RatioLe(access, 1, 25)
     \/ (RatioLe(access, 49, 400) /\ CountLe(access, index, 7, 20))
  THEN ~MeanBelow100(access)
  ELSE FALSE

\* ------------------------------------------------------------------ decoder
\* The log file at logPath: whether it exists, and its bytes.
LogFile(bytes) == [exists |-> TRUE, bytes |-> bytes]

\* A log file that does not exist (os.Open fails).
NoFile == [exists |-> FALSE, bytes |-> <<>>]

Pow256(i) == IF i = 0 THEN 1 ELSE IF i = 1 THEN 256 ELSE IF i = 2 THEN 65536 ELSE 16777216

\* binary.Read(.., binary.LittleEndian, &k) on 8 bytes: the int64 they encode.
\* Words are kept within 32 bits (bytes 5..8 are the sign extension).
RECURSIVE LEMagnitude(_, _, _)
LEMagnitude(data, i, neg) ==
  IF i > 8 THEN 0
  ELSE LET b == IF neg THEN 255 - data[i] ELSE data[i] IN
       (IF b = 0 THEN 0 ELSE b * Pow256(i - 1)) + LEMagnitude(data, i + 1, neg)

LittleEndianInt64(data) ==
  IF data[8] >= 128 THEN -1 - LEMagnitude(data, 1, TRUE)
  ELSE LEMagnitude(data, 1, FALSE)

\* The 8 bytes the profiler writes for one word (the inverse encoding).
WordBytes(v) ==
  [i \in 1..8 |->
     IF v >= 0 THEN (IF i <= 4 THEN (v \div Pow256(i - 1)) % 256 ELSE 0)
     ELSE (IF i <= 4 THEN 255 - (((-1 - v) \div Pow256(i - 1)) % 256) ELSE 255)]

\* One record of the trace log: [address, ignored, count].
RecordBytes(address, ignored, count) ==
  WordBytes(address) \o WordBytes(ignored) \o WordBytes(count)

\* A map write that keeps the value of a key already present.
MapPutIfAbsent(m, key, val) ==
  [x \in (DOMAIN m) \cup {key} |-> IF x \in DOMAIN m THEN m[x] ELSE val]

\* addr_access[addr] = access
MapPut(m, key, val) ==
  [x \in (DOMAIN m) \cup {key} |-> IF x = key THEN val ELSE m[x]]

\* addrs_access[key]: a missing key reads as Go's zero value.
MapGet(m, key) == IF key \in DOMAIN m THEN m[key] ELSE 0

EmptyMap == [x \in {} |-> 0]

\* The read loop of read_sample_logs: fp.Read fills at most 8 bytes; a short
\* final read leaves k as it was (binary.Read fails and its error is dropped).
RECURSIVE ReadLoop(_, _, _, _, _, _, _)
ReadLoop(bytes, k, index, loc, addr, addrs_order, addr_access) ==
  IF Len(bytes) = 0 THEN [order |-> addrs_order, access |-> addr_access]
  ELSE
    LET n == IF Len(bytes) < 8 THEN Len(bytes) ELSE 8
        data == SubSeq(bytes, 1, n)
        k2 == IF n = 8 THEN LittleEndianInt64(data) ELSE k
        isAddr == (index % 3 = 0)
        addr2 == IF isAddr THEN SprintfHex(k2) ELSE addr
        order2 == IF isAddr THEN Append(addrs_order, addr2) ELSE addrs_order
        loc2 == IF isAddr THEN index + 2 ELSE loc
        access2 == IF index = loc2 THEN MapPut(addr_access, addr2, k2) ELSE addr_access
    IN ReadLoop(SubSeq(bytes, n + 1, Len(bytes)), k2, index + 1, loc2, addr2, order2, access2)

read_sample_logs(file) ==
  IF ~file.exists THEN [order |-> <<>>, access |-> EmptyMap]
  ELSE ReadLoop(file.bytes, 0, 0, 0, <<"0","x","0","0","0","0","0","0">>, <<>>, EmptyMap)

\* ----------------------------------------------------------------- selector
\* A row of the process listing: cpu and mem in tenths of a percent ("0.0" is
\* 0), time in seconds ("0:00" is 0).
PsRow(pid, cpu, mem, time) == [pid |-> pid, cpu |-> cpu, mem |-> mem, time |-> time]

\* The output of the listing query: its rows, or the query failed
\* (cmd.Output returned an error, as it does when grep selects nothing).
Listing(rows) == [ok |-> TRUE, rows |-> rows]

QueryFailed == [ok |-> FALSE, rows |-> <<>>]

RECURSIVE PidScan(_, _, _)
PidScan(items, max_cpu, target_pid) ==
  IF Len(items) = 0 THEN target_pid
  ELSE LET r == Head(items) IN
       IF (r.mem # 0 \/ r.cpu # 0 \/ r.time # 0) /\ r.cpu > max_cpu
       THEN PidScan(Tail(items), r.cpu, r.pid)
       ELSE PidScan(Tail(items), max_cpu, target_pid)

get_pid(listing) ==
  IF ~listing.ok THEN <<>>
  ELSE LET target_pid == PidScan(listing.rows, 0, -1) IN
       IF target_pid # -1 THEN <<target_pid>> ELSE <<>>

\* ------------------------------------------------------------------- inputs
\* The addresses the profiler may report (0xdead), and the raw access counts.
Addrs == {57005}

Counts == {10, 198, 200, 205, 500, 3000, 3001}

\* What the profiler may leave at logPath after a sampling window: nothing,
\* or one record for an address.
Logs == {NoFile} \cup {LogFile(RecordBytes(a, 0, c)) : a \in Addrs, c \in Counts}

\* What the listing query may answer.
Listings ==
  { QueryFailed,
    Listing(<<PsRow(40, 0, 0, 0)>>),
    Listing(<<PsRow(40, 0, 0, 0), PsRow(41, 995, 12, 305)>>) }

\* -------------------------------------------------------------------- state
VARIABLES
  \* monitor: the window, the flags, the cycle index, the sampling interval
  last_addr_acc, last_delay, index, delay_interval,
  \* monitor: where the loop is, and its locals addr, acc_num, inx, acc_cmp
  pc, addr, acc_num, inx, acc_cmp,
  \* get_target_addr: targets, and how the last call returned
  targets, ret,
  \* the profiler: module loaded, tracing on, the pids register, the log file
  moduleLoaded, tracing, pidsReg, logFile,
  \* the channel addrChan and the notifier: its position, msg, and how its
  \* last Encode ended
  msgChan, npc, msg, err,
  \* history: the kinds of the last two directives sent, the directives sent in
  \* this cycle, the first HistLen sampled <<addr, count>> and the directives
  \* sent meanwhile
  sentKinds, sentCycle, rawHist, sentHist,
  \* the number of successful cycles explored
  cycleLimit,
  \* judge_delay applied to a window: its inputs, whether it ran, its result
  jd_access, jd_index, jd_done, jd_out,
  \* directives sent on msgChan whose Encode has not returned yet
  unwritten,
  \* read_sample_logs and the return of get_target_addr applied to a log file
  rs_file, rs_done, rs_out, rs_ret,
  \* the records and the number of trailing bytes rs_file was written from
  rs_records, rs_extra,
  \* get_pid applied to a listing
  gp_listing, gp_done, gp_out,
  \* delayStates applied to flags, an index and an interval; the caller's
  \* flags after the call
  ds_flags, ds_index, ds_interval, ds_done, ds_out, ds_flags_after,
  \* the outbound stream: whether it is followed, the directives sent on
  \* msgChan, the directives whose Encode returned with how it ended, and the
  \* lines written to the writer
  traceStream, sentLog, handled, outStream,
  \* listener: the values in the inbound pipe, the strings passed to
  \* maid.Listen_target_addrs, the values read so far, how the last Decode
  \* ended
  inStream, forwarded, consumed, lerr

windowVars == <<last_addr_acc, last_delay, index, delay_interval>>
localVars == <<addr, acc_num, inx, acc_cmp>>
monitorVars == <<windowVars, pc, localVars, targets, ret>>
profilerVars == <<moduleLoaded, tracing, pidsReg, logFile>>
notifierVars == <<npc, msg, err>>
historyVars == <<sentKinds, sentCycle, rawHist, sentHist, cycleLimit>>
judgeVars == <<jd_access, jd_index, jd_done, jd_out>>
decodeVars == <<rs_file, rs_done, rs_out, rs_ret, rs_records, rs_extra>>
selectVars == <<gp_listing, gp_done, gp_out>>
policyVars == <<ds_flags, ds_index, ds_interval, ds_done, ds_out, ds_flags_after>>
streamVars == <<traceStream, sentLog, handled, outStream>>
listenerVars == <<inStream, forwarded, consumed, lerr>>
unitVars == <<decodeVars, selectVars, policyVars, listenerVars>>
vars == <<monitorVars, profilerVars, msgChan, notifierVars, historyVars, judgeVars,
          unwritten, unitVars, streamVars>>

\* The state monitor starts in, before its first cycle.
MonitorInit ==
  /\ last_addr_acc = [i \in 0..2 |-> 500]
  /\ last_delay = [i \in 0..2 |-> TRUE]
  /\ index = 0
  /\ delay_interval = interval
  /\ pc = "get_pid"
  /\ addr = <<>>
  /\ acc_num = -1
  /\ inx = 0
  /\ acc_cmp = 0
  /\ targets = <<>>
  /\ ret = "none"
  /\ moduleLoaded \in BOOLEAN
  /\ tracing = FALSE
  /\ pidsReg = 0
  /\ logFile = NoFile
  /\ msgChan = <<>>
  /\ npc = "recv"
  /\ msg = <<>>
  /\ err = "none"
  /\ sentKinds = <<"none", "none">>
  /\ sentCycle = <<>>
  /\ rawHist = <<>>
  /\ sentHist = <<>>
  /\ unwritten = 0
  /\ sentLog = <<>>
  /\ handled = <<>>
  /\ outStream = <<>>

\* No listener runs (the monitor role), and the outbound stream is not
\* followed.
ListenerIdle ==
  /\ traceStream = FALSE
  /\ inStream = <<>>
  /\ forwarded = <<>>
  /\ consumed = <<>>
  /\ lerr = "none"

JudgeIdle ==
  /\ jd_access = [i \in 0..2 |-> 0]
  /\ jd_index = 0
  /\ jd_done = FALSE
  /\ jd_out = FALSE

\* The result of get_target_addr: addr, access and the success flag.
SamplerResult(a, n, ok) == [addr |-> a, access |-> n, ok |-> ok]

\* No function is being applied on its own.
DecodeIdle ==
  /\ rs_file = NoFile
  /\ rs_done = FALSE
  /\ rs_out = [order |-> <<>>, access |-> EmptyMap]
  /\ rs_ret = SamplerResult(<<>>, -1, FALSE)
  /\ rs_records = <<>>
  /\ rs_extra = 0

SelectIdle ==
  /\ gp_listing = QueryFailed
  /\ gp_done = FALSE
  /\ gp_out = <<>>

PolicyIdle ==
  /\ ds_flags = [i \in 0..2 |-> TRUE]
  /\ ds_index = 0
  /\ ds_interval = interval
  /\ ds_done = FALSE
  /\ ds_out = <<interval, TRUE>>
  /\ ds_flags_after = [i \in 0..2 |-> TRUE]

Init ==
  /\ MonitorInit /\ cycleLimit = MaxCycles
  /\ ListenerIdle
  /\ JudgeIdle /\ DecodeIdle /\ SelectIdle /\ PolicyIdle

\* ------------------------------------------------------------------ sampler
\* get_target_addr goes on to its next step.
SampleStep(next) ==
  /\ pc' = next
  /\ UNCHANGED <<windowVars, localVars, targets, ret>>

\* A failure path that also resets the sampling interval to the baseline.
SampleFailedReset(why) ==
  /\ pc' = "sleep"
  /\ ret' = why
  /\ delay_interval' = interval
  /\ UNCHANGED <<last_addr_acc, last_delay, index, localVars, targets>>

\* get_target_addr returns false: monitor goes to sleep delay_interval and
\* continue.
SampleFailed(why) ==
  /\ pc' = "sleep"
  /\ ret' = why
  /\ UNCHANGED <<windowVars, localVars, targets>>

\* monitor calls get_target_addr, which calls get_pid.
GetPid ==
  /\ pc = "get_pid"
  /\ index < cycleLimit
  /\ \E listing \in Listings :
       /\ targets' = get_pid(listing)
       /\ pc' = IF Len(get_pid(listing)) = 0 THEN "sleep" ELSE "rotate"
       /\ ret' = IF Len(get_pid(listing)) = 0 THEN "no_pid" ELSE "none"
  /\ UNCHANGED <<windowVars, localVars>>
  /\ UNCHANGED <<profilerVars, msgChan, notifierVars, historyVars, judgeVars, unitVars, unwritten, streamVars>>

\* chk_prerequisites: the old log is renamed to logPath.old.
Rotate ==
  /\ pc = "rotate"
  /\ logFile' = NoFile
  /\ SampleStep("ensure_module")
  /\ UNCHANGED <<moduleLoaded, tracing, pidsReg, msgChan, notifierVars, historyVars, judgeVars, unitVars, unwritten, streamVars>>

\* chk_prerequisites: insmod when the control directory is absent.
EnsureModule ==
  /\ pc = "ensure_module"
  /\ \/ /\ moduleLoaded
        /\ UNCHANGED moduleLoaded
        /\ SampleStep("check_pids")
     \/ /\ ~moduleLoaded
        /\ \/ /\ moduleLoaded' = TRUE
              /\ SampleStep("check_pids")
           \/ /\ UNCHANGED moduleLoaded
              /\ SampleFailed("load_failed")
  /\ UNCHANGED <<tracing, pidsReg, logFile, msgChan, notifierVars, historyVars, judgeVars, unitVars, unwritten, streamVars>>

\* A check of the pids control file that writes the PID before it fails.
CheckPidsAfterWrite ==
  /\ pc = "check_pids"
  /\ \/ /\ SampleStep("write_pid")
        /\ UNCHANGED pidsReg
     \/ /\ SampleFailed("no_pids_file")
        /\ pidsReg' = targets[1]
  /\ UNCHANGED <<moduleLoaded, tracing, logFile, msgChan, notifierVars, historyVars, judgeVars, unitVars, unwritten, streamVars>>

\* chk_prerequisites: the pids control file must exist and be a regular file.
CheckPids ==
  /\ pc = "check_pids"
  /\ \/ SampleStep("write_pid")
     \/ SampleFailed("no_pids_file")
  /\ UNCHANGED <<profilerVars, msgChan, notifierVars, historyVars, judgeVars, unitVars, unwritten, streamVars>>

\* echo pid > pids
WritePid ==
  /\ pc = "write_pid"
  /\ pidsReg' = targets[1]
  /\ SampleStep("trace_on")
  /\ UNCHANGED <<moduleLoaded, tracing, logFile, msgChan, notifierVars, historyVars, judgeVars, unitVars, unwritten, streamVars>>

\* echo on > tracing_on
TraceOn ==
  /\ pc = "trace_on"
  /\ tracing' = TRUE
  /\ SampleStep("trace_off")
  /\ UNCHANGED <<moduleLoaded, pidsReg, logFile, msgChan, notifierVars, historyVars, judgeVars, unitVars, unwritten, streamVars>>

\* A window whose end leaves tracing switched on.
TraceOffKeepsOn ==
  /\ pc = "trace_off"
  /\ UNCHANGED tracing
  /\ logFile' \in Logs
  /\ SampleStep("rmmod")
  /\ UNCHANGED <<moduleLoaded, pidsReg, msgChan, notifierVars, historyVars, judgeVars, unitVars, unwritten, streamVars>>

\* The 100 ms window, then echo off > tracing_on: the profiler has written
\* its log, if anything was accessed.
TraceOff ==
  /\ pc = "trace_off"
  /\ tracing' = FALSE
  /\ logFile' \in Logs
  /\ SampleStep("rmmod")
  /\ UNCHANGED <<moduleLoaded, pidsReg, msgChan, notifierVars, historyVars, judgeVars, unitVars, unwritten, streamVars>>

\* A get_target_addr that goes on to read the log although rmmod failed.
ExitHandlerIgnored ==
  /\ pc = "rmmod"
  /\ \/ /\ moduleLoaded' = FALSE
        /\ pidsReg' = 0
     \/ UNCHANGED <<moduleLoaded, pidsReg>>
  /\ SampleStep("decode")
  /\ UNCHANGED <<tracing, logFile, msgChan, notifierVars, historyVars, judgeVars, unitVars, unwritten, streamVars>>

\* exit_handler: rmmod; when it fails the loop of get_target_addr breaks.
ExitHandler ==
  /\ pc = "rmmod"
  /\ \/ /\ moduleLoaded' = FALSE
        /\ pidsReg' = 0
        /\ SampleStep("decode")
     \/ /\ UNCHANGED <<moduleLoaded, pidsReg>>
        /\ SampleFailed("unload_failed")
  /\ UNCHANGED <<tracing, logFile, msgChan, notifierVars, historyVars, judgeVars, unitVars, unwritten, streamVars>>

\* A get_target_addr that returns the last ordered entry.
SampleReturnLast(r) ==
  IF Len(r.order) = 0 THEN SamplerResult(<<>>, -1, FALSE)
  ELSE SamplerResult(r.order[Len(r.order)], MapGet(r.access, r.order[Len(r.order)]), TRUE)

\* The return of get_target_addr on the decoded log r:
\* addr_order[0], addrs_access[addr_order[0]], true, or "", -1, false.
SampleReturn(r) ==
  IF Len(r.order) = 0 THEN SamplerResult(<<>>, -1, FALSE)
  ELSE SamplerResult(r.order[1], MapGet(r.access, r.order[1]), TRUE)

\* read_sample_logs and the return of get_target_addr.
Decode ==
  /\ pc = "decode"
  /\ LET r == SampleReturn(read_sample_logs(logFile)) IN
       IF ~r.ok
       THEN SampleFailed("no_sample")
       ELSE /\ addr' = r.addr
            /\ acc_num' = r.access
            /\ pc' = "decide"
            /\ ret' = "ok"
            /\ UNCHANGED <<windowVars, inx, acc_cmp, targets>>
  /\ UNCHANGED <<profilerVars, msgChan, notifierVars, historyVars, judgeVars, unitVars, unwritten, streamVars>>

\* ------------------------------------------------------------- cycle update
\* int(float64(d) * 0.67) for d > 0: the product is never below an integer it
\* should reach, so this is floor(67*d/100).
Blend(d) == (67 * d) \div 100

\* An acc_cmp that blends whatever the status.
AccCmpAlways(dstats, num, last_acc) ==
  IF num < last_acc THEN num + Blend(last_acc - num) ELSE num

\* acc_cmp
AccCmp(dstats, num, last_acc) ==
  IF dstats /\ num < last_acc THEN num + Blend(last_acc - num) ELSE num

IsOutlierTypo(num) == num > 10 * Outlier

\* An outlier test that lets 3001 through.
IsOutlierLoose(num) == num > Outlier + 1

\* acc_num > 3000
IsOutlier(num) == num > Outlier

\* The noise test with && in place of ||.
IsNoiseAnd(cmp, window, slot) == cmp <= NoiseFloor /\ ~judge_delay(window, slot)

\* acc_cmp <= 80 || !judge_delay(last_addr_acc, inx)
IsNoise(cmp, window, slot) == cmp <= NoiseFloor \/ ~judge_delay(window, slot)

HasHexPrefixUpper(a) == Contains(a, <<"0","X">>)

\* strings.Contains(addr, "0x")
HasHexPrefix(a) == Contains(a, <<"0","x">>)

\* The directive kinds, for the history.
Kind(m) == IF m = stopSig THEN "stop" ELSE "start"

\* The history of a send on msgChan (index was already advanced).
Sent(m) ==
  /\ sentKinds' = <<sentKinds[2], Kind(m)>>
  /\ sentCycle' = Append(sentCycle, m)
  /\ sentHist' = IF index <= HistLen THEN Append(sentHist, m) ELSE sentHist
  /\ unwritten' = unwritten + 1
  /\ sentLog' = IF traceStream THEN Append(sentLog, m) ELSE sentLog
  /\ UNCHANGED <<traceStream, handled, outStream>>

\* monitor, from the return of get_target_addr to the noise `continue` or to
\* the first notification.
Decide ==
  /\ pc = "decide"
  /\ LET slot == index % 3
         ds == delayStates(last_delay, index, delay_interval)
         dstats == ds[2]
         old_acc == last_addr_acc[slot]
         last_acc == last_addr_acc[(slot + 2) % 3]
         cmp == AccCmp(dstats, acc_num, last_acc)
         window == [last_addr_acc EXCEPT ![slot] = cmp]
     IN
       /\ inx' = slot
       /\ acc_cmp' = cmp
       /\ delay_interval' = ds[1]
       /\ index' = index + 1
       /\ rawHist' = IF index < HistLen THEN Append(rawHist, <<addr, acc_num>>) ELSE <<>>
       /\ sentHist' = IF index < HistLen THEN sentHist ELSE <<>>
       /\ IF IsOutlier(acc_num)
          THEN /\ last_addr_acc' = [window EXCEPT ![slot] = old_acc]
               /\ UNCHANGED last_delay
               /\ pc' = IF HasHexPrefix(addr) THEN "send_start" ELSE "window"
          ELSE IF IsNoise(cmp, window, slot)
          THEN /\ last_addr_acc' = IF dstats THEN [window EXCEPT ![slot] = old_acc] ELSE window
               /\ last_delay' = [last_delay EXCEPT ![slot] = FALSE]
               /\ pc' = "sleep"
          ELSE /\ last_addr_acc' = window
               /\ UNCHANGED last_delay
               /\ pc' = IF HasHexPrefix(addr) THEN "send_start" ELSE "window"
  /\ UNCHANGED <<addr, acc_num, targets, ret, sentKinds, sentCycle, cycleLimit>>
  /\ UNCHANGED <<profilerVars, msgChan, notifierVars, judgeVars, unitVars, unwritten, streamVars>>

\* msgChan <- addr_acc
SendStart ==
  /\ pc = "send_start"
  /\ Len(msgChan) < ChanCap
  /\ msgChan' = Append(msgChan, AddrAcc(addr, acc_num))
  /\ Sent(AddrAcc(addr, acc_num))
  /\ pc' = "window"
  /\ UNCHANGED <<windowVars, localVars, targets, ret>>
  /\ UNCHANGED <<profilerVars, notifierVars, rawHist, cycleLimit, judgeVars, unitVars>>

\* time.Sleep(delay_duration * time.Millisecond)
MitigationWindow ==
  /\ pc = "window"
  /\ pc' = "send_stop"
  /\ UNCHANGED <<windowVars, localVars, targets, ret>>
  /\ UNCHANGED <<profilerVars, msgChan, notifierVars, historyVars, judgeVars, unitVars, unwritten, streamVars>>

\* A stop that marks the slot after the current one.
SendStopNextSlot ==
  /\ pc = "send_stop"
  /\ Len(msgChan) < ChanCap
  /\ msgChan' = Append(msgChan, stopSig)
  /\ Sent(stopSig)
  /\ last_delay' = [last_delay EXCEPT ![(inx + 1) % 3] = TRUE]
  /\ delay_interval' = interval
  /\ pc' = "sleep"
  /\ UNCHANGED <<last_addr_acc, index, localVars, targets, ret>>
  /\ UNCHANGED <<profilerVars, notifierVars, rawHist, cycleLimit, judgeVars, unitVars>>

\* msgChan <- stopSig, and the end of the cycle.
SendStop ==
  /\ pc = "send_stop"
  /\ Len(msgChan) < ChanCap
  /\ msgChan' = Append(msgChan, stopSig)
  /\ Sent(stopSig)
  /\ last_delay' = [last_delay EXCEPT ![inx] = TRUE]
  /\ delay_interval' = interval
  /\ pc' = "sleep"
  /\ UNCHANGED <<last_addr_acc, index, localVars, targets, ret>>
  /\ UNCHANGED <<profilerVars, notifierVars, rawHist, cycleLimit, judgeVars, unitVars>>

\* time.Sleep(delay_interval * time.Millisecond) at the end of a cycle,
\* mitigated, noise or failed; the locals of the cycle are dead from here on.
CycleSleep ==
  /\ pc = "sleep"
  /\ pc' = "get_pid"
  /\ addr' = <<>>
  /\ acc_num' = -1
  /\ inx' = 0
  /\ acc_cmp' = 0
  /\ targets' = <<>>
  /\ ret' = "none"
  /\ sentCycle' = <<>>
  /\ UNCHANGED windowVars
  /\ UNCHANGED <<profilerVars, msgChan, notifierVars, judgeVars, unitVars, unwritten, streamVars>>
  /\ UNCHANGED <<sentKinds, rawHist, sentHist, cycleLimit>>

\* ----------------------------------------------------------------- notifier
\* A receive that leaves the message in the channel.
NotifierRecvStuck ==
  /\ npc = "recv"
  /\ Len(msgChan) > 0
  /\ msg' = Head(msgChan)
  /\ npc' = "recv"
  /\ UNCHANGED <<msgChan, err>>
  /\ UNCHANGED <<monitorVars, profilerVars, historyVars, judgeVars, unitVars, unwritten, streamVars>>

\* msg := <-msgChan
NotifierRecv ==
  /\ npc = "recv"
  /\ Len(msgChan) > 0
  /\ msg' = Head(msgChan)
  /\ msgChan' = Tail(msgChan)
  /\ npc' = "encode"
  /\ UNCHANGED err
  /\ UNCHANGED <<monitorVars, profilerVars, historyVars, judgeVars, unitVars, unwritten, streamVars>>

\* An Encode that reports a failure after its line went out.
NotifierEncodePartial ==
  /\ npc = "encode"
  /\ err' \in {"nil", "failed"}
  /\ msg' = <<>>
  /\ npc' = "recv"
  /\ unwritten' = unwritten - 1
  /\ handled' = IF traceStream THEN Append(handled, [m |-> msg, ok |-> err' = "nil"])
                ELSE handled
  /\ outStream' = IF traceStream THEN Append(outStream, JsonEncode(msg)) ELSE outStream
  /\ UNCHANGED <<traceStream, sentLog>>
  /\ UNCHANGED <<msgChan, monitorVars, profilerVars, historyVars, judgeVars, unitVars>>

\* json.NewEncoder(writer).Encode(msg): the line is written, or Encode failed
\* (logged) and nothing is written; the loop goes back to the receive.
NotifierEncode ==
  /\ npc = "encode"
  /\ err' \in {"nil", "failed"}
  /\ msg' = <<>>
  /\ npc' = "recv"
  /\ unwritten' = unwritten - 1
  /\ handled' = IF traceStream THEN Append(handled, [m |-> msg, ok |-> err' = "nil"])
                ELSE handled
  /\ outStream' = IF traceStream /\ err' = "nil" THEN Append(outStream, JsonEncode(msg))
                  ELSE outStream
  /\ UNCHANGED <<traceStream, sentLog>>
  /\ UNCHANGED <<msgChan, monitorVars, profilerVars, historyVars, judgeVars, unitVars>>

\* ------------------------------------------------------------ specification
MonitorNext ==
  \/ GetPid
  \/ Rotate
  \/ EnsureModule
  \/ CheckPids
  \/ WritePid
  \/ TraceOn
  \/ TraceOff
  \/ ExitHandler
  \/ Decode
  \/ Decide
  \/ SendStart
  \/ MitigationWindow
  \/ SendStop
  \/ CycleSleep

NotifierNext == NotifierRecv \/ NotifierEncode

Next == MonitorNext \/ NotifierNext

Spec == Init /\ [][Next]_vars

\* The goroutines are scheduled: monitor and notifier each keep running.
FairInit ==
  /\ MonitorInit /\ cycleLimit = FairCycles
  /\ ListenerIdle
  /\ JudgeIdle /\ DecodeIdle /\ SelectIdle /\ PolicyIdle

FairSpec ==
  FairInit /\ [][Next]_vars /\ WF_vars(MonitorNext) /\ WF_vars(NotifierNext)

\* ------------------------------------------------ judge_delay on its own
JudgeVals == {50 * k : k \in 0..JudgeMax} \cup {99, 101}

JudgeInit ==
  /\ MonitorInit
  /\ cycleLimit = MaxCycles
  /\ ListenerIdle
  /\ jd_access \in [0..2 -> JudgeVals]
  /\ jd_index \in 0..2
  /\ jd_done = FALSE
  /\ jd_out = FALSE
  /\ DecodeIdle /\ SelectIdle /\ PolicyIdle

JudgeApply ==
  /\ ~jd_done
  /\ jd_done' = TRUE
  /\ jd_out' = judge_delay(jd_access, jd_index)
  /\ UNCHANGED <<jd_access, jd_index>>
  /\ UNCHANGED <<monitorVars, profilerVars, msgChan, notifierVars, historyVars>>
  /\ UNCHANGED <<unwritten, unitVars, streamVars>>

JudgeNext == JudgeApply

JudgeSpec == JudgeInit /\ [][JudgeNext]_vars

\* ------------------------------------------- read_sample_logs on its own
\* The words the profiler may write as address and as count; the middle word
\* of a record is 7.
DecAddrs == {57005, 48879}

DecCounts == {3, 300}

DecRecords == [address : DecAddrs, count : DecCounts]

RECURSIVE LogBytes(_)
\* The bytes of a log of complete records.
LogBytes(records) ==
  IF Len(records) = 0 THEN <<>>
  ELSE RecordBytes(Head(records).address, 7, Head(records).count) \o LogBytes(Tail(records))

\* Logs of up to MaxRecords complete records.
RecordSeqs == UNION {[1..n -> DecRecords] : n \in 0..MaxRecords}

DecodeInit ==
  /\ MonitorInit /\ cycleLimit = MaxCycles
  /\ ListenerIdle
  /\ JudgeIdle /\ SelectIdle /\ PolicyIdle
  /\ rs_records \in RecordSeqs
  /\ rs_extra \in 0..23
  /\ \/ /\ rs_records = <<>> /\ rs_extra = 0 /\ rs_file = NoFile
     \/ \E partial \in DecRecords :
          rs_file = LogFile(LogBytes(rs_records)
                            \o SubSeq(RecordBytes(partial.address, 7, partial.count),
                                      1, rs_extra))
  /\ rs_done = FALSE
  /\ rs_out = [order |-> <<>>, access |-> EmptyMap]
  /\ rs_ret = SamplerResult(<<>>, -1, FALSE)

\* addr_order, addrs_access := read_sample_logs() and the return that follows.
DecodeApply ==
  /\ ~rs_done
  /\ rs_done' = TRUE
  /\ rs_out' = read_sample_logs(rs_file)
  /\ rs_ret' = SampleReturn(read_sample_logs(rs_file))
  /\ UNCHANGED <<rs_file, rs_records, rs_extra>>
  /\ UNCHANGED <<monitorVars, profilerVars, msgChan, notifierVars, historyVars>>
  /\ UNCHANGED <<judgeVars, selectVars, policyVars, unwritten, streamVars, listenerVars>>

DecodeNext == DecodeApply

DecodeSpec == DecodeInit /\ [][DecodeNext]_vars

\* ------------------------------------------------------ get_pid on its own
\* Row i of a listing has pid 40 + i; %CPU is 0.0, 0.5 or 99.5, %MEM 0.0 or
\* 1.2, TIME 0:00 or 5:05.
RowLoads == [cpu : {0, 5, 995}, mem : {0, 12}, time : {0, 305}]

RowSeqs ==
  UNION {{[i \in 1..n |-> PsRow(40 + i, f[i].cpu, f[i].mem, f[i].time)] :
            f \in [1..n -> RowLoads]} : n \in 0..MaxRows}

SelectInit ==
  /\ MonitorInit /\ cycleLimit = MaxCycles
  /\ ListenerIdle
  /\ JudgeIdle /\ DecodeIdle /\ PolicyIdle
  /\ gp_listing \in {QueryFailed} \cup {Listing(rows) : rows \in RowSeqs}
  /\ gp_done = FALSE
  /\ gp_out = <<>>

\* targets := get_pid()
SelectApply ==
  /\ ~gp_done
  /\ gp_done' = TRUE
  /\ gp_out' = get_pid(gp_listing)
  /\ UNCHANGED gp_listing
  /\ UNCHANGED <<monitorVars, profilerVars, msgChan, notifierVars, historyVars>>
  /\ UNCHANGED <<judgeVars, decodeVars, policyVars, unwritten, streamVars, listenerVars>>

SelectNext == SelectApply

SelectSpec == SelectInit /\ [][SelectNext]_vars

\* -------------------------------------------------- delayStates on its own
\* Intervals delayStates is applied to: the ones monitor reaches, and values
\* around a tenth of the ceiling.
PolicyIntervals == {500, 5000, 30000} \cup {1, 2999, 3000, 3001}

PolicyInit ==
  /\ MonitorInit /\ cycleLimit = MaxCycles
  /\ ListenerIdle
  /\ JudgeIdle /\ DecodeIdle /\ SelectIdle
  /\ ds_flags \in [0..2 -> BOOLEAN]
  /\ ds_index \in 0..MaxIndex
  /\ ds_interval \in PolicyIntervals
  /\ ds_done = FALSE
  /\ ds_out = <<interval, TRUE>>
  /\ ds_flags_after = ds_flags

\* delay_int, dstats := delayStates(last_delay, index, delay_interval): the
\* array is passed by value, the caller's flags are what they were.
PolicyApply ==
  /\ ~ds_done
  /\ ds_done' = TRUE
  /\ ds_out' = delayStates(ds_flags, ds_index, ds_interval)
  /\ ds_flags_after' = ds_flags
  /\ UNCHANGED <<ds_flags, ds_index, ds_interval>>
  /\ UNCHANGED <<monitorVars, profilerVars, msgChan, notifierVars, historyVars>>
  /\ UNCHANGED <<judgeVars, decodeVars, selectVars, unwritten, streamVars, listenerVars>>

PolicyNext == PolicyApply

PolicySpec == PolicyInit /\ [][PolicyNext]_vars

\* --------------------------------------- monitor and notifier, stream followed
StreamInit ==
  /\ MonitorInit /\ cycleLimit = StreamCycles
  /\ traceStream = TRUE
  /\ inStream = <<>> /\ forwarded = <<>> /\ consumed = <<>> /\ lerr = "none"
  /\ JudgeIdle /\ DecodeIdle /\ SelectIdle /\ PolicyIdle

StreamSpec == StreamInit /\ [][Next]_vars

\* ------------------------------------------------------ listener on its own
\* The values the child may write: two strings, a number, null, and text
\* that does not parse.
InValues ==
  {JString(<<"0","x","a">>), JString(<<"0","x","b">>), JNumber(57005), JNull, Malformed}

\* Inbound streams of up to MaxValues values.
InStreams == UNION {[1..n -> InValues] : n \in 0..MaxValues}

ListenerInit ==
  /\ MonitorInit /\ cycleLimit = MaxCycles
  /\ traceStream = FALSE
  /\ JudgeIdle /\ DecodeIdle /\ SelectIdle /\ PolicyIdle
  /\ inStream \in InStreams
  /\ forwarded = <<>>
  /\ consumed = <<>>
  /\ lerr = "none"

\* What the other goroutines hold while listener runs.
ListenerFrame ==
  UNCHANGED <<monitorVars, profilerVars, msgChan, notifierVars, historyVars, judgeVars,
              unwritten, decodeVars, selectVars, policyVars, streamVars>>

\* One turn of the loop of listener with data in the pipe: a new decoder
\* reads what the pipe holds, k values, and Decode returns the first of
\* them or fails on it; a value returned is printed with %v and passed to
\* maid.Listen_target_addrs; the decoder and what else it had read are
\* dropped at the end of the turn.
ListenerDecode ==
  /\ Len(inStream) > 0
  /\ \E k \in 1..Len(inStream) :
       /\ inStream' = SubSeq(inStream, k + 1, Len(inStream))
       /\ consumed' = consumed \o SubSeq(inStream, 1, k)
       /\ IF inStream[1].kind = "malformed"
          THEN /\ lerr' = "syntax"
               /\ UNCHANGED forwarded
          ELSE /\ lerr' = "nil"
               /\ forwarded' = Append(forwarded, SprintfV(inStream[1]))
  /\ ListenerFrame

\* One turn of the loop at the end of the stream: Decode returns io.EOF and
\* the loop goes round.
ListenerEof ==
  /\ Len(inStream) = 0
  /\ lerr' = "EOF"
  /\ UNCHANGED <<inStream, forwarded, consumed>>
  /\ ListenerFrame

ListenerNext == ListenerDecode \/ ListenerEof

ListenerSpec == ListenerInit /\ [][ListenerNext]_vars

\* =================================================================== claims
\* The addr_acc of the running cycle, spelled out.
CycleStart == addr \o <<" ">> \o Itoa(acc_num)

\* A successfully sampled cycle has just ended (monitor is in its last sleep).
CycleEnded == pc = "sleep" /\ ret = "ok"

\* C1: the directives monitor hands to the channel alternate strictly,
\* beginning with a start: a start follows nothing or a stop, and a stop
\* follows a start.
C1_Alternation ==
  /\ sentKinds[2] = "start" => sentKinds[1] \in {"none", "stop"}
  /\ sentKinds[2] = "stop" => sentKinds[1] = "start"

\* C1 witness: a second start directive has been sent, after a full
\* start/stop pair.
C1_Witness == sentKinds = <<"stop", "start">> /\ pc = "window"

\* C2: a cycle sends a start directive and enters the mitigation window only
\* if its update committed the adjusted count to the slot; a cycle whose raw
\* count exceeds 3000 and a noise cycle do neither.
C2_StartOnlyIfCommitted ==
  (pc \in {"window", "send_stop"} \/ sentCycle # <<>>)
    => (acc_num <= 3000 /\ last_addr_acc[inx] = acc_cmp)

\* C3: between a start directive and its stop the loop is in the mitigation
\* window or at the send of the stop (no sampling in between), and every
\* start is eventually followed by the stop.
C3_StartThenStop ==
  /\ [](sentKinds[2] = "start" => pc \in {"window", "send_stop"})
  /\ (sentKinds[2] = "start") ~> (sentKinds[2] = "stop")

\* C3 witness: the stop has to wait, the start still fills the channel.
C3_Witness ==
  sentKinds[2] = "start" /\ pc = "send_stop" /\ Len(msgChan) = ChanCap

\* C4: a cycle that reaches the mitigation window has handed off exactly
\* "A c" (A the sampled address, c the raw count); leaving it, it has handed
\* off "A c" and "0x00000 0", the slot's flag is true and the interval is
\* 500.  From the initial state the counts 200, 205, 198 at 0xdead end the
\* third cycle with "0xdead 198", "0x00000 0" handed off and the interval 500.
C4_MitigatingCycle ==
  /\ [](pc \in {"window", "send_stop"} => sentCycle = <<CycleStart>>)
  /\ [][(pc = "send_stop" /\ pc' # "send_stop")
          => /\ pc' = "sleep"
             /\ sentCycle' = <<CycleStart, <<"0","x","0","0","0","0","0"," ","0">> >>
             /\ last_delay'[inx]
             /\ delay_interval' = 500]_vars
  /\ []((CycleEnded /\ rawHist = << <<SprintfHex(57005), 200>>,
                                    <<SprintfHex(57005), 205>>,
                                    <<SprintfHex(57005), 198>> >>)
          => /\ sentCycle = << <<"0","x","d","e","a","d"," ","1","9","8">>,
                              <<"0","x","0","0","0","0","0"," ","0">> >>
             /\ delay_interval = 500
             /\ last_delay[2])

\* C4 witness: the third cycle of the scenario has ended.
C4_Witness ==
  /\ CycleEnded
  /\ index = 3
  /\ rawHist = << <<SprintfHex(57005), 200>>, <<SprintfHex(57005), 205>>,
                  <<SprintfHex(57005), 198>> >>
  /\ Len(sentCycle) = 2

\* C5: from the initial state, three cycles sampling the counts 500, 10, 500
\* hand off no directive.
C5_NoiseScenario ==
  (Len(rawHist) = 3 /\ \A i \in 1..3 : rawHist[i][2] = <<500, 10, 500>>[i])
    => sentHist = <<>>

\* No directive was ever handed off and a sampled cycle has just ended: all
\* cycles so far were free of mitigation.
QuietSoFar == CycleEnded /\ sentKinds[2] = "none"

\* The interval delayStates returned in a cycle that did not mitigate is the
\* interval the cycle ends with.
C6_OriginalSeq(n) == IF n = 1 THEN 500 ELSE IF n = 2 THEN 5000 ELSE 30000

\* C6 as claimed: over cycles without mitigation the policy yields 500, 5000,
\* 30000, 30000, ..; and it yields 500 in the cycle right after a mitigated
\* one.
C6_Original ==
  /\ [](QuietSoFar => delay_interval = C6_OriginalSeq(index))
  /\ [][(pc = "decide" /\ pc' # "decide" /\ index >= 1 /\ last_delay[(index - 1) % 3])
          => delay_interval' = 500]_vars

C6_AmendedSeq(n) == IF n <= 3 THEN 500 ELSE IF n = 4 THEN 5000 ELSE 30000

\* C6 amended: over cycles without mitigation the policy yields 500, 500,
\* 500, 5000, 30000, 30000, .., never more than 30000; and it yields 500 in
\* every cycle that comes back to a slot whose flag is true.
C6_Backoff ==
  /\ [](QuietSoFar => delay_interval = C6_AmendedSeq(index))
  /\ [][(pc = "decide" /\ pc' # "decide")
          => /\ delay_interval' <= 30000
             /\ last_delay[index % 3] => delay_interval' = 500]_vars

\* C6 witness: six cycles without mitigation, the interval at its ceiling.
C6_Witness == QuietSoFar /\ index = 6 /\ delay_interval = 30000

\* C7: the sampling interval is 500, 5000 or 30000.
C7_IntervalRange ==
  /\ 500 <= delay_interval
  /\ delay_interval <= 30000
  /\ delay_interval \in {500, 5000, 30000}

\* C7 witness: the interval reached the ceiling from 5000, after a failed
\* and a mitigating cycle were seen.
C7_Witness == delay_interval = 30000 /\ sentKinds[2] = "stop" /\ pc = "decide"

\* C8: a cycle whose raw count exceeds 3000 leaves all three counts of the
\* window as they were, at the update and until the cycle ends.
C8_OutlierKeepsWindow ==
  /\ [][(pc = "decide" /\ acc_num > 3000) => last_addr_acc' = last_addr_acc]_vars
  /\ [][(pc \in {"send_start", "window", "send_stop", "sleep"})
          => last_addr_acc' = last_addr_acc]_vars

\* C8 witness: an outlier cycle past its update, the previous cycle having
\* been noise (no prior mitigation) and the slot's flag being false.
C8_Witness ==
  /\ pc = "send_start"
  /\ acc_num = 3001
  /\ ~last_delay[(inx + 2) % 3]
  /\ ~last_delay[inx]

\* C9: judge_delay is false whenever the mean of the window is below 100, and
\* true on [100,100,100], at every slot index.
C9_JudgeMean ==
  jd_done =>
    /\ (jd_access[0] + jd_access[1] + jd_access[2] < 3 * 100) => ~jd_out
    /\ (\A i \in 0..2 : jd_access[i] = 100) => jd_out

\* C9 witness: [100,100,0] was judged, and not at slot 0.
C9_Witness ==
  /\ jd_done
  /\ jd_access = [i \in 0..2 |-> IF i = 2 THEN 0 ELSE 100]
  /\ jd_index = 1
  /\ ~jd_out

\* C10 as claimed: once get_target_addr got past get_pid and has returned,
\* with success or with an error, the module is not loaded.
C10_Original ==
  (ret \in {"ok", "load_failed", "no_pids_file", "unload_failed", "no_sample"})
    => ~moduleLoaded

\* C10 amended: after a call that returned success, the empty-decode error
\* (both lie behind a successful rmmod) or the load error (insmod failed),
\* the module is not loaded.
C10_Unloaded == (ret \in {"ok", "no_sample", "load_failed"}) => ~moduleLoaded

\* C10 witness: a call ended with an empty decode, the module unloaded.
C10_Witness == ret = "no_sample" /\ pc = "sleep" /\ ~moduleLoaded

\* The address of record i of the log, as the decoder prints it.
RecAddr(records, i) == SprintfHex(records[i].address)

\* The last record of the log that carries the address of record i.
LastWith(records, i) ==
  CHOOSE j \in 1..Len(records) :
    /\ records[j].address = records[i].address
    /\ \A k \in (j + 1)..Len(records) : records[k].address # records[i].address

\* What decoding a log of complete records is to give: the addresses in log
\* order, and for each address the count of the last record carrying it.
RefDecode(records) ==
  [order |-> [i \in 1..Len(records) |-> RecAddr(records, i)],
   access |-> [a \in {RecAddr(records, i) : i \in 1..Len(records)} |->
                 LET i == CHOOSE i \in 1..Len(records) : RecAddr(records, i) = a
                 IN records[LastWith(records, i)].count]]

\* C11 as claimed: on a log of one or more complete records the sampler
\* succeeds with the address and the count of the last record; on an empty
\* decode it returns the error and no address.
C11_Original ==
  rs_done =>
    /\ (rs_extra = 0 /\ Len(rs_records) >= 1)
         => /\ rs_ret.ok
            /\ rs_ret.addr = RecAddr(rs_records, Len(rs_records))
            /\ rs_ret.access = rs_records[Len(rs_records)].count
    /\ Len(rs_out.order) = 0 => (~rs_ret.ok /\ rs_ret.addr = <<>>)

\* C11 amended: on a log of one or more complete records the sampler
\* succeeds with the address of the first record and the count of the last
\* record carrying that address; on an empty decode it returns the error and
\* no address.
C11_FirstEntry ==
  rs_done =>
    /\ (rs_extra = 0 /\ Len(rs_records) >= 1)
         => /\ rs_ret.ok
            /\ rs_ret.addr = RecAddr(rs_records, 1)
            /\ rs_ret.access = rs_records[LastWith(rs_records, 1)].count
    /\ Len(rs_out.order) = 0 => (~rs_ret.ok /\ rs_ret.addr = <<>>)

\* C11 witness: two records with different addresses were sampled; the
\* address of the first came back.
C11_Witness ==
  /\ rs_done /\ rs_extra = 0 /\ Len(rs_records) = 2
  /\ rs_records[1].address = 57005 /\ rs_records[2].address = 48879
  /\ rs_ret.ok
  /\ rs_ret.addr = <<"0","x","d","e","a","d">>

\* C12: a log of N complete records decodes to its N addresses in log order,
\* duplicates kept, and to the mapping of each address to the count of the
\* last record carrying it.
C12_DecodeTriples ==
  (rs_done /\ rs_extra = 0) =>
    /\ Len(rs_out.order) = Len(rs_records)
    /\ rs_out = RefDecode(rs_records)

\* C12 witness: two records of one address with different counts were
\* decoded; the mapping has the count of the second.
C12_Witness ==
  /\ rs_done /\ rs_extra = 0
  /\ rs_records = <<[address |-> 57005, count |-> 300], [address |-> 57005, count |-> 3]>>
  /\ rs_out.order = << <<"0","x","d","e","a","d">>, <<"0","x","d","e","a","d">> >>
  /\ rs_out.access[<<"0","x","d","e","a","d">>] = 3

\* C13: a log of N complete records followed by 1 to 23 bytes decodes to what
\* the N records alone decode to.
C13_TruncatedDropped ==
  (rs_done /\ rs_extra \in 1..23) => rs_out = RefDecode(rs_records)

\* The rows of the listing that are not all-zero.
Remaining(listing) ==
  {i \in 1..Len(listing.rows) :
     ~(listing.rows[i].cpu = 0 /\ listing.rows[i].mem = 0 /\ listing.rows[i].time = 0)}

\* C14: get_pid returns none when the query failed or every row is all-zero,
\* and otherwise one process, a row among the remaining ones with the highest
\* cpu.
C14_Selection ==
  gp_done =>
    IF ~gp_listing.ok \/ Remaining(gp_listing) = {}
    THEN gp_out = <<>>
    ELSE /\ Len(gp_out) = 1
         /\ \E i \in Remaining(gp_listing) :
              /\ gp_out[1] = gp_listing.rows[i].pid
              /\ \A j \in Remaining(gp_listing) :
                   gp_listing.rows[j].cpu <= gp_listing.rows[i].cpu

\* The positions of monitor inside get_target_addr.
SamplerPcs ==
  {"get_pid", "rotate", "ensure_module", "check_pids", "write_pid", "trace_on",
   "trace_off", "rmmod", "decode"}

\* The ways get_target_addr fails.
Failures == {"no_pid", "load_failed", "no_pids_file", "unload_failed", "no_sample"}

\* The sampling of the running cycle has failed; monitor sleeps before the
\* next one.
FailedSleep == pc = "sleep" /\ ret \in Failures

\* C15: while monitor is inside get_target_addr, and while it sleeps after a
\* failure, no directive is sent and the window counts, the flags, the cycle
\* index and the interval stay as they are; the only way out of the sampler
\* other than success is the sleep; a failed cycle has sent nothing, and
\* from its sleep monitor goes back to get_pid, which can run again.
C15_FailedCycle ==
  /\ [][(pc \in SamplerPcs \/ FailedSleep)
          => /\ windowVars' = windowVars
             /\ sentKinds' = sentKinds
             /\ sentCycle' = sentCycle
             /\ Len(msgChan') <= Len(msgChan)]_vars
  /\ [][(pc \in SamplerPcs /\ pc' \notin SamplerPcs)
          => \/ pc' = "decide" /\ ret' = "ok"
             \/ pc' = "sleep" /\ ret' \in Failures]_vars
  /\ [][(FailedSleep /\ pc' # pc) => pc' = "get_pid"]_vars
  /\ [](FailedSleep => (sentCycle = <<>> /\ ENABLED CycleSleep))
  /\ []((pc = "get_pid" /\ index < cycleLimit) => ENABLED GetPid)

\* C15 witness: a cycle failed at the decode while the interval was at its
\* ceiling, after cycles that mitigated.
C15_Witness ==
  /\ FailedSleep /\ ret = "no_sample"
  /\ delay_interval = 30000
  /\ sentKinds[2] = "stop"

\* C16: the channel holds at most one directive; a send completes only into
\* an empty channel, that is after the notifier took the directive sent
\* before; at most two directives are sent and not yet written.
C16_SingleSlot ==
  /\ [](Len(msgChan) <= 1)
  /\ [][Len(msgChan') > Len(msgChan) => msgChan = <<>>]_vars
  /\ [](unwritten <= 2)
  /\ [](unwritten = Len(msgChan) + (IF npc = "encode" THEN 1 ELSE 0))

\* C16 witness: the start is being written, the stop waits in the channel.
C16_Witness ==
  /\ unwritten = 2
  /\ npc = "encode" /\ msg # stopSig
  /\ msgChan = <<stopSig>>

\* The smaller of two numbers.
Min(a, b) == IF a <= b THEN a ELSE b

\* C17: delayStates returns (500, true) at index 0; at index >= 1 the status
\* is the flag of slot (index-1) mod 3 and the interval is 500 when the flag
\* of slot index mod 3 is true, min(10 * interval, 30000) otherwise; the
\* caller's flags are unchanged.
C17_PolicyReference ==
  ds_done =>
    /\ ds_index = 0 => ds_out = <<500, TRUE>>
    /\ ds_index >= 1 =>
         /\ ds_out[2] = ds_flags[(ds_index - 1) % 3]
         /\ ds_flags[ds_index % 3] => ds_out[1] = 500
         /\ ~ds_flags[ds_index % 3] => ds_out[1] = Min(ds_interval * 10, 30000)
    /\ ds_flags_after = ds_flags

\* C17 witness: the interval 3001 was escalated to the ceiling at index 4,
\* the previous slot's flag being true.
C17_Witness ==
  /\ ds_done /\ ds_index = 4 /\ ds_interval = 3001
  /\ ds_flags[0] /\ ~ds_flags[1]
  /\ ds_out = <<30000, TRUE>>

\* The window judged, its sum, the sum P of its squared pairwise differences
\* (the population variance is P/9, the mean sum/3), the previous slot's
\* count and the distance of the current count from it.
JdSum == jd_access[0] + jd_access[1] + jd_access[2]

JdP ==
  (jd_access[0] - jd_access[1]) * (jd_access[0] - jd_access[1])
  + (jd_access[1] - jd_access[2]) * (jd_access[1] - jd_access[2])
  + (jd_access[0] - jd_access[2]) * (jd_access[0] - jd_access[2])

JdPrev == jd_access[(jd_index + 2) % 3]

JdDiff ==
  IF jd_access[jd_index] >= JdPrev THEN jd_access[jd_index] - JdPrev
  ELSE JdPrev - jd_access[jd_index]

\* cv <= sqrt(n2/d2), cv the standard deviation over the mean:
\* cv^2 = (P/9) / (sum/3)^2 = P / sum^2.
CvLe(n2, d2) == JdSum > 0 /\ d2 * JdP <= n2 * JdSum * JdSum

\* relativeDelta <= n/d, for a previous count above 0.
DeltaLe(n, d) == JdPrev > 0 /\ d * JdDiff <= n * JdPrev

\* C18: on a window of counts >= 0 whose previous slot is not 0, judge_delay
\* is (relativeDelta <= 0.1 or cv <= 0.2 or (cv <= 0.35 and relativeDelta <=
\* 0.35)) and mean >= 100, cv being the standard deviation over the mean.
C18_Reference ==
  (jd_done /\ JdPrev # 0) =>
    (jd_out <=> /\ DeltaLe(1, 10) \/ CvLe(1, 25) \/ (CvLe(49, 400) /\ DeltaLe(7, 20))
                /\ JdSum >= 300)

\* C19 as claimed: a window whose cv exceeds 0.35 is judged false.
C19_Original == (jd_done /\ ~CvLe(49, 400)) => ~jd_out

\* The ratio judge_delay computes, the root of the summed squared deviations
\* over the mean (ratio^2 = 3P / sum^2, at least cv^2), exceeds sqrt(n2/d2).
RatioAbove(n2, d2) == JdSum > 0 /\ 3 * d2 * JdP > n2 * JdSum * JdSum

\* C19 amended: a window whose ratio exceeds 0.35 and whose current count is
\* not within a tenth of the previous one is judged false.
C19_HighVariance ==
  (jd_done /\ RatioAbove(49, 400) /\ ~DeltaLe(1, 10)) => ~jd_out

\* C19 witness: [300, 50, 300] judged at slot 2 (ratio 0.94, the count six
\* times the previous one, mean 216) is false.
C19_Witness ==
  /\ jd_done /\ ~jd_out
  /\ jd_access = [i \in 0..2 |-> IF i = 1 THEN 50 ELSE 300]
  /\ jd_index = 2

\* raw + 0.67 * (other - raw), truncated, for other > raw.
Blended(raw, other) == raw + ((other - raw) * 67) \div 100

\* The count of the slot before the current one, (index + 2) mod 3.
PrevSlotCount == last_addr_acc[((index % 3) + 2) % 3]

\* C20 as claimed: the update blends exactly when the current slot's own flag
\* is true and the raw count is below the count of slot (inx+2) mod 3.
C20_Original ==
  [][(pc = "decide" /\ pc' # "decide")
       => acc_cmp' = IF last_delay[index % 3] /\ acc_num < PrevSlotCount
                     THEN Blended(acc_num, PrevSlotCount) ELSE acc_num]_vars

\* The status delayStates hands to the update: true in cycle 0, afterwards
\* the flag of the slot of the previous cycle.
PriorStatus == IF index = 0 THEN TRUE ELSE last_delay[(index - 1) % 3]

\* C20 amended: the update blends exactly when the prior status is true and
\* the raw count is below the count of slot (inx+2) mod 3.
C20_Blend ==
  [][(pc = "decide" /\ pc' # "decide")
       => acc_cmp' = IF PriorStatus /\ acc_num < PrevSlotCount
                     THEN Blended(acc_num, PrevSlotCount) ELSE acc_num]_vars

\* C20 witness: a committed cycle whose count was blended although the flag
\* of its own slot is false.
C20_Witness ==
  /\ pc = "send_start"
  /\ acc_num <= 3000
  /\ acc_cmp > acc_num
  /\ ~last_delay[inx]

\* The adjusted count of the running cycle, as the amended C20 has it.
Adjusted ==
  IF PriorStatus /\ acc_num < PrevSlotCount
  THEN Blended(acc_num, PrevSlotCount) ELSE acc_num

\* The cycle at its update is a noise cycle: raw count <= 3000 and adjusted
\* count <= 80 or judge_delay false on the window holding the adjusted count.
NoiseCycle ==
  /\ pc = "decide"
  /\ acc_num <= 3000
  /\ \/ Adjusted <= 80
     \/ ~judge_delay([last_addr_acc EXCEPT ![index % 3] = Adjusted], index % 3)

\* The interval the policy gives in the running cycle.
PolicyInterval ==
  IF index = 0 \/ last_delay[index % 3] THEN 500
  ELSE Min(delay_interval * 10, 30000)

\* C21: the update of a noise cycle sends nothing and goes to the sleep; it
\* sets the flag of the current slot to false and leaves the other flags; it
\* leaves the other two counts, and the count of the current slot too when
\* the prior status is true; the interval is the one the policy computed, and
\* the sleep leaves window, flags, index and interval alone.
C21_NoiseCycle ==
  /\ [][(NoiseCycle /\ pc' # "decide")
          => /\ pc' = "sleep"
             /\ msgChan' = msgChan /\ sentKinds' = sentKinds
             /\ sentCycle' = <<>>
             /\ last_delay' = [last_delay EXCEPT ![index % 3] = FALSE]
             /\ \A i \in 0..2 : i # index % 3 => last_addr_acc'[i] = last_addr_acc[i]
             /\ PriorStatus => last_addr_acc' = last_addr_acc
             /\ delay_interval' = PolicyInterval]_vars
  /\ [][(pc = "sleep") => (windowVars' = windowVars /\ Len(msgChan') <= Len(msgChan))]_vars

\* C21 witness: a blended count was classified as noise and undone: the slot
\* holds its previous count again, its flag is false, the interval escalated.
C21_Witness ==
  /\ pc = "sleep" /\ ret = "ok" /\ sentCycle = <<>>
  /\ acc_cmp > acc_num
  /\ last_addr_acc[inx] # acc_cmp
  /\ ~last_delay[inx]
  /\ delay_interval = 5000

\* C22: the index never decreases and grows by one exactly at the update of
\* a successfully sampled cycle, whose slot is index mod 3; the counts and
\* flags of the two other slots are never written, at the update or at the
\* end of the mitigation, and nothing of the window is written elsewhere.
C22_OneSlotPerCycle ==
  /\ [][index' = index \/ (index' = index + 1 /\ pc = "decide" /\ ret = "ok")]_vars
  /\ [][(pc = "decide" /\ pc' # "decide")
          => /\ index' = index + 1
             /\ inx' = index % 3
             /\ \A i \in 0..2 : i # index % 3 =>
                  (last_addr_acc'[i] = last_addr_acc[i] /\ last_delay'[i] = last_delay[i])]_vars
  /\ [][(pc \in {"send_start", "window", "send_stop", "sleep"})
          => /\ ret = "ok" => inx = (index - 1) % 3
             /\ last_addr_acc' = last_addr_acc
             /\ \A i \in 0..2 : i # inx => last_delay'[i] = last_delay[i]]_vars
  /\ [][(pc \in SamplerPcs) => (last_addr_acc' = last_addr_acc /\ last_delay' = last_delay)]_vars

\* C22 witness: the fourth successful cycle is back at slot 0 and has
\* mitigated, the flags of slots 1 and 2 being false.
C22_Witness ==
  /\ index = 4 /\ inx = 0
  /\ pc = "sleep" /\ Len(sentCycle) = 2
  /\ last_delay[0] /\ ~last_delay[1] /\ ~last_delay[2]

\* The step of get_target_addr that follows step p when p succeeds.
NextStep(p) ==
  CASE p = "get_pid" -> "rotate"
    [] p = "rotate" -> "ensure_module"
    [] p = "ensure_module" -> "check_pids"
    [] p = "check_pids" -> "write_pid"
    [] p = "write_pid" -> "trace_on"
    [] p = "trace_on" -> "trace_off"
    [] p = "trace_off" -> "rmmod"
    [] p = "rmmod" -> "decode"
    [] p = "decode" -> "decide"

\* C23: inside one call of get_target_addr the profiler steps run in the
\* order rotate the old log, ensure the module, verify the pids file, write
\* the PID, tracing on, tracing off, remove the module, decode the log: a
\* step is left only for the next one or for the failure sleep, and each
\* step does its work. Tracing is on only between tracing-on and
\* tracing-off, with the module loaded and the PID of this call written; it
\* is switched on only when it is off; the module is removed only with
\* tracing off; and a new call starts only after the previous one returned,
\* with tracing off.
C23_ProfilerOrder ==
  /\ [][(pc \in SamplerPcs) => pc' \in {pc, NextStep(pc), "sleep"}]_vars
  /\ [][(pc \notin SamplerPcs) => (pc' \in SamplerPcs => (pc = "sleep" /\ pc' = "get_pid"))]_vars
  /\ [][(pc = "rotate" /\ pc' # pc) => logFile' = NoFile]_vars
  /\ [][(pc = "ensure_module" /\ pc' = "check_pids") => moduleLoaded']_vars
  /\ [][(pc = "write_pid" /\ pc' # pc) => (pc' = "trace_on" /\ pidsReg' = targets[1])]_vars
  /\ [][(pc = "trace_on" /\ pc' # pc) => (pc' = "trace_off" /\ ~tracing /\ tracing')]_vars
  /\ [][(pc = "trace_off" /\ pc' # pc) => (pc' = "rmmod" /\ tracing /\ ~tracing')]_vars
  /\ [][(pc = "rmmod" /\ pc' = "decode") => (moduleLoaded /\ ~moduleLoaded')]_vars
  /\ [][(tracing' # tracing) => pc \in {"trace_on", "trace_off"}]_vars
  /\ [][(moduleLoaded /\ ~moduleLoaded') => (pc = "rmmod" /\ ~tracing)]_vars
  /\ [](tracing => (pc = "trace_off" /\ moduleLoaded /\ pidsReg = targets[1]))
  /\ [](pc \in {"write_pid", "trace_on", "trace_off", "rmmod"} => moduleLoaded)

\* C23 witness: the second call of get_target_addr has gone through all its
\* steps and returned a sample, tracing off and the module removed.
C23_Witness ==
  /\ pc = "decide" /\ ret = "ok" /\ index = 1
  /\ ~tracing /\ ~moduleLoaded /\ logFile # NoFile

\* C24: a failed insmod and a missing pids file end the call at that step,
\* before any PID write or tracing toggle of this call; a failed rmmod ends
\* it without decoding; a failed call goes straight to monitor's sleep with
\* no retry, monitor's address, count, window and flags untouched, and the
\* decision step is entered only from a successful decode.
C24_AbortAtFailure ==
  /\ [][(pc \in {"get_pid", "rotate", "ensure_module", "check_pids"})
          => (pidsReg' = pidsReg /\ tracing' = tracing /\ ~tracing)]_vars
  /\ [][(pc = "ensure_module" /\ pc' = "sleep")
          => /\ ret' = "load_failed" /\ ~moduleLoaded'
             /\ logFile' = logFile]_vars
  /\ [][(pc = "check_pids" /\ pc' = "sleep") => ret' = "no_pids_file"]_vars
  /\ [][(pc = "rmmod" /\ pc' = "sleep")
          => /\ ret' = "unload_failed"
             /\ logFile' = logFile /\ moduleLoaded' = moduleLoaded]_vars
  /\ [][(pc \in SamplerPcs /\ pc' = "sleep")
          => /\ ret' \in Failures
             /\ addr' = addr /\ acc_num' = acc_num
             /\ windowVars' = windowVars /\ msgChan' = msgChan]_vars
  /\ [][FailedSleep => (pc' \in {"sleep", "get_pid"} /\ addr' = addr /\ acc_num' = acc_num)]_vars
  /\ [][(pc' = "decide" /\ pc # "decide") => (pc = "decode" /\ ret' = "ok")]_vars
  /\ [](pc \in {"decide", "send_start", "window", "send_stop"} => ret = "ok")

\* C24 witness: after a sampled cycle, a call whose rmmod failed: the log of
\* its window is there, undecoded, and monitor still holds the address and
\* count of the cycle before.
C24_Witness ==
  /\ pc = "sleep" /\ ret = "unload_failed"
  /\ index = 1 /\ logFile # NoFile /\ moduleLoaded
  /\ rawHist # <<>>

\* C27: when a cycle starts, every slot of the window holds at most 3000.
C27_SlotsBounded ==
  (pc = "get_pid") => \A i \in 0..2 : last_addr_acc[i] <= Outlier

\* C27 witness: a cycle starts with one slot at the bound, 3000, and another
\* slot holding a blended count.
C27_Witness ==
  /\ pc = "get_pid"
  /\ \E i \in 0..2 : last_addr_acc[i] = Outlier
  /\ \E j \in 0..2 : last_addr_acc[j] \notin (Counts \cup {500})

\* The directives of a sequence of handled entries.
HandledMsgs(h) == [i \in 1..Len(h) |-> h[i].m]

\* The entries whose Encode returned nil.
Written(h) == SelectSeq(h, LAMBDA e : e.ok)

\* C25: the directives monitor sent are, in order, the ones whose Encode has
\* returned, the one notifier is encoding, and the one waiting in the
\* channel; the lines on the outbound stream are the encodings of the
\* directives whose Encode returned nil, once each and in that order. The
\* return of Encode, failed or not, takes notifier back to the receive and
\* changes nothing of monitor or of the channel.
C25_StreamIsSentMinusFailed ==
  /\ [](sentLog = HandledMsgs(handled)
                    \o (IF npc = "encode" THEN <<msg>> ELSE <<>>)
                    \o msgChan)
  /\ [](outStream = [i \in 1..Len(Written(handled)) |-> JsonEncode(Written(handled)[i].m)])
  /\ [][(npc = "encode" /\ npc' # npc)
          => /\ npc' = "recv"
             /\ monitorVars' = monitorVars
             /\ msgChan' = msgChan
             /\ sentLog' = sentLog]_vars
  /\ [][(err' = "failed" /\ npc = "encode" /\ npc' # npc) => outStream' = outStream]_vars

\* C25 witness: the first Encode failed, the second wrote its line, the
\* third failed again, and monitor has gone on to its second cycle.
C25_Witness ==
  /\ Len(handled) = 3
  /\ ~handled[1].ok /\ handled[2].ok /\ ~handled[3].ok
  /\ outStream = <<JsonEncode(stopSig)>>
  /\ index = 2

\* The strings of the well-formed values among vs, as listener prints them.
Printed(vs) ==
  LET good == SelectSeq(vs, LAMBDA v : v.kind # "malformed")
  IN [i \in 1..Len(good) |-> SprintfV(good[i])]

\* C26: the strings listener has forwarded are, once each and in arrival
\* order, the well-formed values among those it has read from the inbound
\* stream; a value that does not parse adds nothing and the reader goes on
\* with the value after it.
C26_ForwardsEachValue == forwarded = Printed(consumed)

====
